---- MODULE Spec2Model ----
(***************************************************************************)
(* smt2parser::vmt -- extraction of a VMT transition system from a list of *)
(* parsed commands (VMTModel::checked_from), its bounded unrolling         *)
(* (VMTModel::unroll with the time-step renamer) and the textual query     *)
(* (SMTProblem::to_smtlib2); the array abstraction of a model              *)
(* (VMTModel::abstract_array_theory) and the ArrayAbstractor rewriter.     *)
(*                                                                         *)
(* Text is a sequence of one-character strings, so that formatting         *)
(* ("{}@{}"), quoting and scrub_variable_name are computed, not assumed.   *)
(***************************************************************************)
EXTENDS Integers, Sequences, FiniteSets, TLC

VARIABLES
    commands,         \* the parsed commands handed to checked_from
    overflow_checks,  \* the build: TRUE panics on integer overflow, FALSE wraps
    model,            \* the result of checked_from: a panic or the VMTModel
    pc,               \* where the program is
    length,           \* unroll's depth argument (u8)
    iter,             \* iterations of unroll's loop done so far
    builder,          \* the VMTBuilder of the running unroll
    smt_problem,      \* the SMTProblem being accumulated
    panic,            \* the message unroll or to_smtlib2 died with, or ""
    script,           \* the text returned by to_smtlib2
    abstracted,       \* the result of abstract_array_theory, or no model
    visited           \* a node handed to the ArrayAbstractor and what came back

vars == <<commands, overflow_checks, model, pc, length, iter, builder,
          smt_problem, panic, script, abstracted, visited>>

array_vars == <<abstracted, visited>>

(***************************************************************************)
(* Bounds of the model.                                                    *)
(***************************************************************************)
\* longest list of commands before the three trailing ones (extraction)
MaxPrefix == 3
\* largest unrolling depth enumerated for every model
MaxDepth == 2

\* u8::MAX, the largest value of `length` and of `step`
U8Max == 255

(***************************************************************************)
(* Text helpers.                                                           *)
(***************************************************************************)
DigitChar == <<"0", "1", "2", "3", "4", "5", "6", "7", "8", "9">>

\* u8::to_string: the decimal digits of n, no sign, no leading zero
RECURSIVE to_string(_)
to_string(n) ==
    IF n < 10 THEN <<DigitChar[n + 1]>>
    ELSE to_string(n \div 10) \o <<DigitChar[(n % 10) + 1]>>

RECURSIVE JoinRange(_, _, _, _)
\* strs[lo..hi] joined by sep, halving the range
JoinRange(strs, sep, lo, hi) ==
    IF lo > hi THEN <<>>
    ELSE IF lo = hi THEN strs[lo]
    ELSE LET mid == (lo + hi) \div 2
         IN  JoinRange(strs, sep, lo, mid) \o sep \o JoinRange(strs, sep, mid + 1, hi)

\* Vec<String>::join(sep)
Join(strs, sep) == JoinRange(strs, sep, 1, Len(strs))

RECURSIVE Concat(_)
Concat(seqs) ==
    IF Len(seqs) = 0 THEN <<>> ELSE Head(seqs) \o Concat(Tail(seqs))

Range(s) == {s[i] : i \in DOMAIN s}

(***************************************************************************)
(* Syntax tree (crate::concrete): symbols, sorts, terms, commands.         *)
(***************************************************************************)
\* Term::QualIdentifier(Simple)
Id(s) == [kind |-> "id", sym |-> s]
\* Term::Application
App(f, as) == [kind |-> "app", sym |-> f, args |-> as]
\* Term::Attributes { term, attributes }; an attribute is <<keyword, value>>,
\* the value a symbol or the empty text (AttributeValue::None)
Attributes(t, attrs) == [kind |-> "attr", term |-> t, attributes |-> attrs]

\* Term::Application whose function is a sorted identifier, (as f sort)
AppAs(f, so, as) == [kind |-> "app_as", sym |-> f, sort |-> so, args |-> as]

\* Sort::Simple
SimpleSort(s) == [identifier |-> s, parameters |-> <<>>]
\* Sort::Parameterized: the parameters, simple sorts, are a non-empty list
ParameterizedSort(s, ps) == [identifier |-> s, parameters |-> ps]

DeclareFun(s, so) == [cmd |-> "declare-fun", symbol |-> s, sort |-> so]
DefineFun(s, so, t) == [cmd |-> "define-fun", symbol |-> s, sort |-> so, term |-> t]
DeclareSort(s, n) == [cmd |-> "declare-sort", symbol |-> s, arity |-> n]
CheckSat == [cmd |-> "check-sat"]

\* characters a symbol may hold without quoting
SimpleChars ==
    {"a", "b", "c", "d", "e", "f", "g", "h", "i", "j", "k", "l", "m", "n", "o",
     "p", "q", "r", "s", "t", "u", "v", "w", "x", "y", "z",
     "A", "B", "C", "I", "L", "R", "S", "W",
     "0", "1", "2", "3", "4", "5", "6", "7", "8", "9",
     "~", "!", "@", "$", "%", "^", "&", "*", "_", "-", "+", "=", "<", ">",
     ".", "?", "/"}

\* Display for Symbol: bare when it is a simple symbol, |quoted| otherwise
SymbolToString(s) ==
    IF \A i \in DOMAIN s : s[i] \in SimpleChars THEN s
    ELSE <<"|">> \o s \o <<"|">>

\* Display for Keyword: the colon and the name
KeywordToString(k) == ":" \o k

SortToString(so) ==
    IF so.parameters = <<>> THEN SymbolToString(so.identifier)
    ELSE <<"(">> \o SymbolToString(so.identifier) \o
         Concat([i \in DOMAIN so.parameters |->
                   <<" ">> \o SymbolToString(so.parameters[i].identifier)])
         \o <<")">>

RECURSIVE TermToString(_)
\* Display for Term
TermToString(t) ==
    CASE t.kind = "id" -> SymbolToString(t.sym)
      [] t.kind = "app" ->
            <<"(">> \o SymbolToString(t.sym) \o
            Concat([i \in DOMAIN t.args |-> <<" ">> \o TermToString(t.args[i])])
            \o <<")">>
      [] t.kind = "app_as" ->
            <<"(", "(", "a", "s", " ">> \o SymbolToString(t.sym) \o <<" ">>
            \o SortToString(t.sort) \o <<")">> \o
            Concat([i \in DOMAIN t.args |-> <<" ">> \o TermToString(t.args[i])])
            \o <<")">>
      [] t.kind = "attr" ->
            <<"(", "!", " ">> \o TermToString(t.term) \o
            Concat([i \in DOMAIN t.attributes |->
                      <<" ">> \o KeywordToString(t.attributes[i][1]) \o
                      (IF t.attributes[i][2] = <<>> THEN <<>>
                       ELSE <<" ">> \o SymbolToString(t.attributes[i][2]))])
            \o <<")">>

\* Display for Command (the two kinds the query holds)
CommandToString(c) ==
    CASE c.cmd = "declare-fun" ->
            <<"(", "d", "e", "c", "l", "a", "r", "e", "-", "f", "u", "n", " ">>
            \o SymbolToString(c.symbol) \o <<" ", "(", ")", " ">>
            \o SortToString(c.sort) \o <<")">>
      [] c.cmd = "declare-sort" ->
            <<"(", "d", "e", "c", "l", "a", "r", "e", "-", "s", "o", "r", "t", " ">>
            \o SymbolToString(c.symbol) \o <<" ">> \o to_string(c.arity) \o <<")">>
      [] OTHER -> <<"(", ")">>

(***************************************************************************)
(* Outcomes: a panic with its message, or a value.                         *)
(***************************************************************************)
Panic(msg) == [panic |-> msg]
Ok(v) == [ok |-> v]
IsPanic(r) == "panic" \in DOMAIN r

PROPERTY_ATTRIBUTE == "invar-property"
TRANSITION_ATTRIBUTE == "trans"
INITIAL_ATTRIBUTE == "init"

(***************************************************************************)
(* Structural extractor.                                                   *)
(***************************************************************************)
\* Ok(bool), or the panic of assert!(attributes.len() == 1)
command_has_attribute_string(command, attribute) ==
    IF command.cmd = "define-fun" /\ command.term.kind = "attr"
    THEN IF Len(command.term.attributes) # 1
         THEN Panic("assertion failed: attributes.len() == 1")
         ELSE Ok(command.term.attributes[1][1] = attribute)
    ELSE Ok(FALSE)

\* an unwrapping that accepts the wrapper whatever its keyword
get_transition_system_component_any_keyword(command, attribute) ==
    LET has == command_has_attribute_string(command, attribute)
    IN  IF IsPanic(has) THEN has
        ELSE IF command.cmd = "define-fun" /\ command.term.kind = "attr"
        THEN Ok(command.term.term)
        ELSE Panic("Ill-formed system component")

get_transition_system_component(command, attribute) ==
    LET has == command_has_attribute_string(command, attribute)
    IN  IF IsPanic(has) THEN has
        ELSE IF has.ok THEN Ok(command.term.term)
        ELSE Panic("Ill-formed system component")

\* a scrub that leaves the quoting bars in place
scrub_variable_name_identity(variable_name) == variable_name

scrub_variable_name(variable_name) ==
    IF Len(variable_name) > 0 /\ Head(variable_name) = "|"
       /\ variable_name[Len(variable_name)] = "|"
    THEN \* chars.next(); chars.next_back(); what is left
         IF Len(variable_name) < 2 THEN <<>>
         ELSE SubSeq(variable_name, 2, Len(variable_name) - 1)
    ELSE variable_name

\* a lookup that makes up a declaration for a name it does not hold
get_variable_command_lenient(variable_name, variable_commands) ==
    IF variable_name \in DOMAIN variable_commands
    THEN Ok(variable_commands[variable_name])
    ELSE Ok(DeclareFun(variable_name, SimpleSort(<<"B", "o", "o", "l">>)))

\* variable_commands is the HashMap: a function from the declared names
get_variable_command(variable_name, variable_commands) ==
    IF variable_name \in DOMAIN variable_commands
    THEN Ok(variable_commands[variable_name])
    ELSE Panic("First term in define-fun must be a variable name")

\* one iteration of the loop over the relationships: the lists after it, or a panic
relationship_step(variable_relationship, variable_commands, acc) ==
    LET term == variable_relationship.term IN
    IF term.kind # "attr"
    THEN Panic("Only Attribute terms can define variable relationships.")
    ELSE IF Len(term.attributes) # 1
    THEN Panic("assertion failed: attributes.len() == 1")
    ELSE LET keyword_string == KeywordToString(term.attributes[1][1])
             value == term.attributes[1][2]
         IN  IF keyword_string = ":next"
             THEN LET variable_command ==
                          get_variable_command(
                              scrub_variable_name(TermToString(term.term)),
                              variable_commands)
                      new_variable_command ==
                          get_variable_command(
                              scrub_variable_name(SymbolToString(value)),
                              variable_commands)
                  IN  IF IsPanic(variable_command) THEN variable_command
                      ELSE IF IsPanic(new_variable_command) THEN new_variable_command
                      ELSE Ok([state_variables |->
                                  Append(acc.state_variables,
                                         [current |-> variable_command.ok,
                                          next |-> new_variable_command.ok]),
                               actions |-> acc.actions])
             ELSE IF keyword_string = ":action"
             THEN LET action_variable_name ==
                          scrub_variable_name(TermToString(term.term))
                  IN  IF action_variable_name \in DOMAIN variable_commands
                      THEN Ok([state_variables |-> acc.state_variables,
                               actions |->
                                  Append(acc.actions,
                                         [action_command |->
                                            variable_commands[action_variable_name]])])
                      ELSE Panic("Proposed action variable not previously defined.")
             ELSE Panic("Only next and action keyword attributes are allowed")

RECURSIVE relationship_loop(_, _, _)
relationship_loop(variable_relationships, variable_commands, acc) ==
    IF Len(variable_relationships) = 0 THEN Ok(acc)
    ELSE LET r == relationship_step(Head(variable_relationships),
                                    variable_commands, acc)
         IN  IF IsPanic(r) THEN r
             ELSE relationship_loop(Tail(variable_relationships),
                                    variable_commands, r.ok)

get_variables_and_actions(variable_relationships, variable_commands) ==
    relationship_loop(variable_relationships, variable_commands,
                      [state_variables |-> <<>>, actions |-> <<>>])

\* the commands before the last three, in order
Leading(cmds) == SubSeq(cmds, 1, Len(cmds) - 3)

SelectCmd(cmds, kind) == SelectSeq(cmds, LAMBDA c : c.cmd = kind)

\* the HashMap after the inserts of the loop: the last declaration of a name wins
VariableCommands(cmds) ==
    LET decls == SelectCmd(Leading(cmds), "declare-fun")
        names == {decls[i].symbol : i \in DOMAIN decls}
    IN  [n \in names |->
            decls[CHOOSE i \in DOMAIN decls :
                    /\ decls[i].symbol = n
                    /\ \A j \in DOMAIN decls : decls[j].symbol = n => j <= i]]

checked_from(cmds) ==
    LET number_of_commands == Len(cmds) IN
    IF ~(number_of_commands > 3)
    THEN Panic("Not enough commands for VMT model!")
    ELSE
    LET property_condition ==
            get_transition_system_component(cmds[number_of_commands],
                                            PROPERTY_ATTRIBUTE)
        transition_condition ==
            get_transition_system_component(cmds[number_of_commands - 1],
                                            TRANSITION_ATTRIBUTE)
        initial_condition ==
            get_transition_system_component(cmds[number_of_commands - 2],
                                            INITIAL_ATTRIBUTE)
        lead == Leading(cmds)
    IN  IF IsPanic(property_condition) THEN property_condition
        ELSE IF IsPanic(transition_condition) THEN transition_condition
        ELSE IF IsPanic(initial_condition) THEN initial_condition
        ELSE IF \E i \in DOMAIN lead :
                   lead[i].cmd \notin {"declare-fun", "define-fun", "declare-sort"}
        THEN Panic("Unknown VMT command")
        ELSE LET va == get_variables_and_actions(SelectCmd(lead, "define-fun"),
                                                 VariableCommands(cmds))
             IN  IF IsPanic(va) THEN va
                 ELSE Ok([sorts |-> SelectCmd(lead, "declare-sort"),
                          state_variables |-> va.ok.state_variables,
                          actions |-> va.ok.actions,
                          initial_condition |-> initial_condition.ok,
                          transition_condition |-> transition_condition.ok,
                          property_condition |-> property_condition.ok])

(***************************************************************************)
(* Time-step renamer (VMTBuilder) and the generic rewrite it specialises.  *)
(***************************************************************************)
variable_name(command) == command.symbol

get_all_current_variable_names(m) ==
    [i \in DOMAIN m.state_variables |-> variable_name(m.state_variables[i].current)]
    \o [i \in DOMAIN m.actions |-> variable_name(m.actions[i].action_command)]

\* collect() into a HashMap: of two variables with one next name the later wins
get_all_next_variable_names(m) ==
    LET sv == m.state_variables
        keys == {variable_name(sv[i].next) : i \in DOMAIN sv}
    IN  [n \in keys |->
            variable_name(
                sv[CHOOSE i \in DOMAIN sv :
                     /\ variable_name(sv[i].next) = n
                     /\ \A j \in DOMAIN sv :
                           variable_name(sv[j].next) = n => j <= i].current)]

NewBuilder(m) ==
    [current_variables |-> get_all_current_variable_names(m),
     next_variables |-> get_all_next_variable_names(m),
     step |-> 0]

\* an advance that leaves the counter where it is
add_step_none(b) == b

add_step(b) == [b EXCEPT !.step = b.step + 1]

\* an addition in a type wide enough for every sum
U8Add_wide(a, b, checked) == Ok(a + b)

\* u8 addition: a panic where overflow is checked, the wrapped value where not
U8Add(a, b, checked) ==
    IF a + b > U8Max
    THEN IF checked THEN Panic("attempt to add with overflow")
         ELSE Ok((a + b) % (U8Max + 1))
    ELSE Ok(a + b)

format_at(name, n) == name \o <<"@">> \o to_string(n)

\* the renamer with the next frame indexed like the current one
process_symbol_same_step(b, s, checked) ==
    IF s \in Range(b.current_variables)
    THEN Ok(format_at(s, b.step))
    ELSE IF s \in DOMAIN b.next_variables
    THEN Ok(format_at(b.next_variables[s], b.step))
    ELSE Ok(s)

process_symbol(b, s, checked) ==
    IF s \in Range(b.current_variables)
    THEN Ok(format_at(s, b.step))
    ELSE IF s \in DOMAIN b.next_variables
    THEN LET next == U8Add(b.step, 1, checked)
         IN  IF IsPanic(next) THEN next
             ELSE Ok(format_at(b.next_variables[s], next.ok))
    ELSE Ok(s)

RECURSIVE Symbols(_)
\* the symbols of a term in the order the traversal meets them
Symbols(t) ==
    CASE t.kind = "id" -> <<t.sym>>
      [] t.kind \in {"app", "app_as"} ->
            <<t.sym>> \o Concat([i \in DOMAIN t.args |-> Symbols(t.args[i])])
      [] t.kind = "attr" -> Symbols(t.term)

RECURSIVE MapSymbols(_, _, _)
\* the structure-preserving copy of a term, its symbols through process_symbol
MapSymbols(t, b, checked) ==
    CASE t.kind = "id" -> Id(process_symbol(b, t.sym, checked).ok)
      [] t.kind = "app" ->
            App(process_symbol(b, t.sym, checked).ok,
                [i \in DOMAIN t.args |-> MapSymbols(t.args[i], b, checked)])
      [] t.kind = "app_as" ->
            AppAs(process_symbol(b, t.sym, checked).ok, t.sort,
                  [i \in DOMAIN t.args |-> MapSymbols(t.args[i], b, checked)])
      [] t.kind = "attr" ->
            Attributes(MapSymbols(t.term, b, checked), t.attributes)

\* term.accept(&mut builder): the first failing process_symbol ends the rewrite
RewriteTerm(t, b, checked) ==
    LET syms == Symbols(t)
        bad == {i \in DOMAIN syms : IsPanic(process_symbol(b, syms[i], checked))}
    IN  IF bad # {}
        THEN process_symbol(b, syms[CHOOSE i \in bad : \A j \in bad : i <= j], checked)
        ELSE Ok(MapSymbols(t, b, checked))

\* command.accept(&mut builder) for a declare-fun: its symbol and its sort's
RewriteCommand(c, b, checked) ==
    LET sym == process_symbol(b, c.symbol, checked)
        so == process_symbol(b, c.sort.identifier, checked)
    IN  IF IsPanic(sym) THEN sym
        ELSE IF IsPanic(so) THEN so
        ELSE Ok(DeclareFun(sym.ok, [c.sort EXCEPT !.identifier = so.ok]))

(***************************************************************************)
(* The accumulator (SMTProblem).                                           *)
(***************************************************************************)
None == [none |-> TRUE]
Some(t) == [some |-> t]

\* #[derive(Default)]
DefaultProblem ==
    [sorts |-> <<>>, definitions |-> <<>>, init_and_trans_assertions |-> <<>>,
     property_assertion |-> None]

SMTProblem_new(sorts) == [DefaultProblem EXCEPT !.sorts = sorts]

add_assertion(p, condition, b, checked) ==
    LET rewritten_condition == RewriteTerm(condition, b, checked)
    IN  IF IsPanic(rewritten_condition) THEN rewritten_condition
        ELSE Ok([p EXCEPT !.init_and_trans_assertions =
                              Append(@, rewritten_condition.ok)])

add_property_assertion(p, condition, b, checked) ==
    LET rewritten_property == RewriteTerm(condition, b, checked)
    IN  IF IsPanic(rewritten_property) THEN rewritten_property
        ELSE Ok([p EXCEPT !.property_assertion = Some(rewritten_property.ok)])

\* the definitions made from the variables' next declarations
add_definitions_of_next(p, state_variables, actions, b, checked) ==
    LET cmds == [i \in DOMAIN state_variables |-> state_variables[i].next]
                \o [i \in DOMAIN actions |-> actions[i].action_command]
        at_time == [i \in DOMAIN cmds |-> RewriteCommand(cmds[i], b, checked)]
        bad == {i \in DOMAIN cmds : IsPanic(at_time[i])}
    IN  IF bad # {}
        THEN at_time[CHOOSE i \in bad : \A j \in bad : i <= j]
        ELSE Ok([p EXCEPT !.definitions =
                              @ \o [i \in DOMAIN cmds |-> at_time[i].ok]])

\* the two loops: the state variables' current declarations, then the actions
add_definitions(p, state_variables, actions, b, checked) ==
    LET cmds == [i \in DOMAIN state_variables |-> state_variables[i].current]
                \o [i \in DOMAIN actions |-> actions[i].action_command]
        at_time == [i \in DOMAIN cmds |-> RewriteCommand(cmds[i], b, checked)]
        bad == {i \in DOMAIN cmds : IsPanic(at_time[i])}
    IN  IF bad # {}
        THEN at_time[CHOOSE i \in bad : \A j \in bad : i <= j]
        ELSE Ok([p EXCEPT !.definitions =
                              @ \o [i \in DOMAIN cmds |-> at_time[i].ok]])

assert_term(term) ==
    <<"(", "a", "s", "s", "e", "r", "t", " ">> \o TermToString(term) \o <<")">>

\* the property asserted as it stands
assert_negation_dropped(term) ==
    <<"(", "a", "s", "s", "e", "r", "t", " ">> \o TermToString(term) \o <<")">>

assert_negation(term) ==
    <<"(", "a", "s", "s", "e", "r", "t", " ", "(", "n", "o", "t", " ">>
    \o TermToString(term) \o <<")", ")">>

NL == <<"\n">>

\* the query with the assertions ahead of the definitions
to_smtlib2_asserts_first(p) ==
    IF p.property_assertion = None
    THEN Panic("No property assertion for SMTProblem!")
    ELSE LET sort_names ==
                 Join([i \in DOMAIN p.sorts |-> CommandToString(p.sorts[i])], NL)
             defs ==
                 Join([i \in DOMAIN p.definitions |->
                          CommandToString(p.definitions[i])], NL)
             init_and_trans_asserts ==
                 Join([i \in DOMAIN p.init_and_trans_assertions |->
                          assert_term(p.init_and_trans_assertions[i])], NL)
             property_assert == assert_negation(p.property_assertion.some)
         IN  Ok(sort_names \o NL \o init_and_trans_asserts \o NL \o defs
                \o NL \o property_assert)

\* format!("{}\n{}\n{}\n{}", sort_names, defs, init_and_trans_asserts, property_assert)
to_smtlib2(p) ==
    IF p.property_assertion = None
    THEN Panic("No property assertion for SMTProblem!")
    ELSE LET sort_names ==
                 Join([i \in DOMAIN p.sorts |-> CommandToString(p.sorts[i])], NL)
             defs ==
                 Join([i \in DOMAIN p.definitions |->
                          CommandToString(p.definitions[i])], NL)
             init_and_trans_asserts ==
                 Join([i \in DOMAIN p.init_and_trans_assertions |->
                          assert_term(p.init_and_trans_assertions[i])], NL)
             prop == p.property_assertion.some
             property_assert == assert_negation(prop)
         IN  Ok(sort_names \o NL \o defs \o NL \o init_and_trans_asserts
                \o NL \o property_assert)

(***************************************************************************)
(* Inputs: symbols, terms and command lists.                               *)
(***************************************************************************)
X == <<"x">>
\* a name that is no simple symbol: it prints as |x'|
XN == <<"x", "'">>
Y == <<"y">>
A == <<"a">>
W == <<"w">>
\* a legal simple symbol that has the shape of a time-indexed name
XAT1 == <<"x", "@", "1">>
SortS == <<"S">>
Bool == <<"B", "o", "o", "l">>
TrueSym == <<"t", "r", "u", "e">>
NotSym == <<"n", "o", "t">>
EqSym == <<"=">>
AndSym == <<"a", "n", "d">>
NoValue == <<>>

BoolSort == SimpleSort(Bool)
DeclX == DeclareFun(X, BoolSort)
DeclXN == DeclareFun(XN, BoolSort)
DeclY == DeclareFun(Y, BoolSort)
DeclA == DeclareFun(A, BoolSort)
DeclW == DeclareFun(W, BoolSort)
DeclXAT1 == DeclareFun(XAT1, BoolSort)
DeclS == DeclareSort(SortS, 0)

\* (define-fun .r () Bool (! c :next n))
NextRel(c, n) ==
    DefineFun(<<".", "r">>, BoolSort, Attributes(Id(c), << <<"next", n>> >>))
\* (define-fun .r () Bool (! a :action 0))
ActionRel(a) ==
    DefineFun(<<".", "r">>, BoolSort, Attributes(Id(a), << <<"action", <<"0">> >> >>))
\* a relationship with an attribute that is neither :next nor :action
NamedRel == DefineFun(<<".", "r">>, BoolSort, Attributes(Id(X), << <<"named", A>> >>))
\* a definition whose body is no attribute wrapper
PlainDef == DefineFun(<<".", "r">>, BoolSort, Id(X))
\* a wrapper with two attributes
TwoAttrRel ==
    DefineFun(<<".", "r">>, BoolSort,
              Attributes(Id(X), << <<"next", XN>>, <<"named", A>> >>))

Wrapper(t, keyword) ==
    DefineFun(<<".", "c">>, BoolSort, Attributes(t, << <<keyword, TrueSym>> >>))
InitCmd(t) == Wrapper(t, INITIAL_ATTRIBUTE)
TransCmd(t) == Wrapper(t, TRANSITION_ATTRIBUTE)
PropCmd(t) == Wrapper(t, PROPERTY_ATTRIBUTE)

Not(t) == App(NotSym, <<t>>)
Eq(t, u) == App(EqSym, <<t, u>>)
And(t, u) == App(AndSym, <<t, u>>)

RECURSIVE SeqsUpTo(_, _)
\* the sequences over S of length at most n
SeqsUpTo(S, n) ==
    IF n = 0 THEN {<<>>}
    ELSE LET shorter == SeqsUpTo(S, n - 1)
         IN  shorter \cup {Append(q, e) : q \in shorter, e \in S}

\* --- inputs of the extraction runs: every short list over a pool of commands
Pool == {DeclX, DeclXN, DeclA, NextRel(X, XN), ActionRel(A), DeclS,
         CheckSat, NamedRel, PlainDef, TwoAttrRel}

ExtractTrailers ==
    {<<i, t, p>> :
        i \in {InitCmd(Id(X)), TransCmd(Id(X)), DeclX},
        t \in {TransCmd(Eq(Id(XN), Id(X))), InitCmd(Id(X)), TwoAttrRel},
        p \in {PropCmd(Id(X)), PlainDef}}

ExtractInputs ==
    {lead \o trail : lead \in SeqsUpTo(Pool, MaxPrefix), trail \in ExtractTrailers}

\* --- inputs of the unrolling runs: a few variable layouts, many conditions
PfxVar == <<DeclX, DeclXN, NextRel(X, XN)>>
PfxVarAct == <<DeclS, DeclX, DeclXN, DeclA, NextRel(X, XN), ActionRel(A)>>
\* y is the next name of x and the current name of the second variable
PfxChain == <<DeclX, DeclXN, DeclY, NextRel(X, Y), NextRel(Y, XN)>>
\* a variable that is its own next
PfxSelf == <<DeclX, NextRel(X, X)>>
\* two variables with one next name
PfxDup == <<DeclX, DeclXN, DeclY, NextRel(X, XN), NextRel(Y, XN)>>
\* w and x@1 are declared and named by no relationship
PfxLocal == <<DeclX, DeclXN, DeclW, DeclXAT1, NextRel(X, XN)>>
\* no variable at all
PfxNone == <<DeclS>>

Prefixes == {PfxVar, PfxVarAct, PfxChain, PfxSelf, PfxDup, PfxLocal, PfxNone}

InitTerms == {Id(X), Not(Id(X)), Eq(Id(X), Id(TrueSym)), Id(TrueSym), Id(XN)}
TransTerms ==
    {Eq(Id(XN), Not(Id(X))), Eq(Id(XN), Id(X)), Eq(Id(XN), And(Id(X), Id(A))),
     Id(XN), And(Id(X), Not(Id(XN))), Eq(Id(XN), Id(XAT1)), Eq(Id(Y), Id(X))}
PropTerms == {Id(X), Not(Id(X)), Eq(Id(X), Id(TrueSym)), Id(XN), Id(W)}

UnrollInputs ==
    {lead \o <<InitCmd(i), TransCmd(t), PropCmd(p)>> :
        lead \in Prefixes, i \in InitTerms, t \in TransTerms, p \in PropTerms}

\* the inputs also unrolled at the two largest depths a u8 holds
WideInputs ==
    {PfxNone \o <<InitCmd(Id(TrueSym)), TransCmd(Id(TrueSym)), PropCmd(Id(TrueSym))>>,
     PfxVar \o <<InitCmd(Id(X)), TransCmd(Eq(Id(XN), Id(X))), PropCmd(Id(X))>>,
     PfxVar \o <<InitCmd(Id(X)), TransCmd(Eq(Id(XN), Id(X))), PropCmd(Id(XN))>>}

Depths(cmds) ==
    (0..MaxDepth) \cup (IF cmds \in WideInputs THEN {U8Max - 1, U8Max} ELSE {})

(***************************************************************************)
(* The state machine.                                                      *)
(***************************************************************************)
NoModel == [none |-> TRUE]

Idle ==
    /\ model = NoModel
    /\ pc = "start"
    /\ length = 0
    /\ iter = 0
    /\ builder = [current_variables |-> <<>>, next_variables |-> <<>>, step |-> 0]
    /\ smt_problem = DefaultProblem
    /\ panic = ""
    /\ script = <<>>
    /\ abstracted = NoModel
    /\ visited = [none |-> TRUE]

Init ==
    /\ commands \in UnrollInputs
    /\ overflow_checks \in BOOLEAN
    /\ Idle

InitExtract ==
    /\ commands \in ExtractInputs
    /\ overflow_checks \in BOOLEAN
    /\ Idle

\* VMTModel::checked_from(commands)
CheckedFrom ==
    /\ pc = "start"
    /\ model' = checked_from(commands)
    /\ pc' = IF IsPanic(model') THEN "panicked" ELSE "model"
    /\ UNCHANGED array_vars
    /\ UNCHANGED <<commands, overflow_checks, length, iter, builder, smt_problem,
                   panic, script>>

\* unroll(length): the builder, the accumulator and the initial assertion
UnrollBegin ==
    /\ pc = "model"
    /\ \E k \in Depths(commands) :
         LET b == NewBuilder(model.ok)
             p == add_assertion(SMTProblem_new(model.ok.sorts),
                                model.ok.initial_condition, b, overflow_checks)
         IN  /\ length' = k
             /\ builder' = b
             /\ iter' = 0
             /\ IF IsPanic(p)
                THEN /\ panic' = p.panic
                     /\ pc' = "panicked"
                     /\ smt_problem' = SMTProblem_new(model.ok.sorts)
                ELSE /\ panic' = panic
                     /\ pc' = "loop"
                     /\ smt_problem' = p.ok
    /\ UNCHANGED array_vars
    /\ UNCHANGED <<commands, overflow_checks, model, script>>

\* one iteration of `for _ in 0..length`
UnrollIter ==
    /\ pc = "loop"
    /\ iter < length
    /\ LET m == model.ok
           p1 == add_definitions(smt_problem, m.state_variables, m.actions,
                                 builder, overflow_checks)
           p2 == add_assertion(p1.ok, m.transition_condition, builder,
                               overflow_checks)
       IN  IF IsPanic(p1)
           THEN /\ panic' = p1.panic
                /\ pc' = "panicked"
                /\ UNCHANGED <<smt_problem, builder, iter>>
           ELSE IF IsPanic(p2)
           THEN /\ panic' = p2.panic
                /\ pc' = "panicked"
                /\ smt_problem' = p1.ok
                /\ UNCHANGED <<builder, iter>>
           ELSE /\ smt_problem' = p2.ok
                /\ builder' = add_step(builder)
                /\ iter' = iter + 1
                /\ UNCHANGED <<pc, panic>>
    /\ UNCHANGED array_vars
    /\ UNCHANGED <<commands, overflow_checks, model, length, script>>

\* after the loop: the last definitions, the property, the postcondition
UnrollEnd ==
    /\ pc = "loop"
    /\ iter = length
    /\ LET m == model.ok
           p1 == add_definitions(smt_problem, m.state_variables, m.actions,
                                 builder, overflow_checks)
           p2 == add_property_assertion(p1.ok, m.property_condition, builder,
                                        overflow_checks)
           expected == U8Add(length, 1, overflow_checks)
       IN  IF IsPanic(p1)
           THEN /\ panic' = p1.panic
                /\ pc' = "panicked"
                /\ UNCHANGED smt_problem
           ELSE IF IsPanic(p2)
           THEN /\ panic' = p2.panic
                /\ pc' = "panicked"
                /\ smt_problem' = p1.ok
           ELSE /\ smt_problem' = p2.ok
                /\ IF IsPanic(expected)
                   THEN /\ panic' = expected.panic
                        /\ pc' = "panicked"
                   ELSE IF Len(p2.ok.init_and_trans_assertions) # expected.ok
                   THEN /\ panic' = "Unrolling gives incorrect number of steps"
                        /\ pc' = "panicked"
                   ELSE /\ panic' = panic
                        /\ pc' = "unrolled"
    /\ UNCHANGED array_vars
    /\ UNCHANGED <<commands, overflow_checks, model, length, iter, builder, script>>

\* SMTProblem::to_smtlib2 on the accumulator unroll returned
ToSmtlib2 ==
    /\ pc = "unrolled"
    /\ LET text == to_smtlib2(smt_problem)
       IN  IF IsPanic(text)
           THEN /\ panic' = text.panic
                /\ pc' = "panicked"
                /\ UNCHANGED script
           ELSE /\ script' = text.ok
                /\ pc' = "done"
                /\ UNCHANGED panic
    /\ UNCHANGED array_vars
    /\ UNCHANGED <<commands, overflow_checks, model, length, iter, builder,
                   smt_problem>>

Next == CheckedFrom \/ UnrollBegin \/ UnrollIter \/ UnrollEnd \/ ToSmtlib2

\* the unrolling runs
Spec == Init /\ [][Next]_vars

\* the extraction runs
SpecExtract == InitExtract /\ [][Next]_vars

(***************************************************************************)
(* Array abstraction (VMTModel::abstract_array_theory, ArrayAbstractor).   *)
(***************************************************************************)
ArrayName == <<"A", "r", "r", "a", "y">>
SelectName == <<"s", "e", "l", "e", "c", "t">>
StoreName == <<"s", "t", "o", "r", "e">>
ConstName == <<"c", "o", "n", "s", "t">>
ArrayIntIntName == <<"A", "r", "r", "a", "y", "-", "I", "n", "t", "-", "I", "n", "t">>
ReadIntIntName == <<"R", "e", "a", "d", "-", "I", "n", "t", "-", "I", "n", "t">>
WriteIntIntName == <<"W", "r", "i", "t", "e", "-", "I", "n", "t", "-", "I", "n", "t">>
ConstArrIntIntName ==
    <<"C", "o", "n", "s", "t", "A", "r", "r", "-", "I", "n", "t", "-", "I", "n", "t">>

\* QualIdentifier::Simple { identifier }
SimpleQual(name) == [sorted |-> FALSE, identifier |-> name]
\* QualIdentifier::Sorted { identifier, sort }
SortedQual(name, so) == [sorted |-> TRUE, identifier |-> name, sort |-> so]

simple_identifier_with_name(name) == SimpleQual(name)

\* the qual_identifier of an application node
QualOf(t) ==
    IF t.kind = "app_as" THEN SortedQual(t.sym, t.sort) ELSE SimpleQual(t.sym)

\* Term::Application { qual_identifier, arguments }
Application(qual_identifier, arguments) ==
    IF qual_identifier.sorted
    THEN AppAs(qual_identifier.identifier, qual_identifier.sort, arguments)
    ELSE App(qual_identifier.identifier, arguments)

visit_declare_fun(symbol, sort) ==
    LET new_sort ==
            IF sort.parameters = <<>> THEN sort
            ELSE IF SymbolToString(sort.identifier) = ArrayName
                 THEN SimpleSort(ArrayIntIntName)
                 ELSE sort
    IN  DeclareFun(symbol, new_sort)

\* a rewrite that knows select and const and passes store through
visit_application_without_store(qual_identifier, arguments) ==
    Application(
        IF ~qual_identifier.sorted
        THEN IF SymbolToString(qual_identifier.identifier) = SelectName
             THEN simple_identifier_with_name(ReadIntIntName)
             ELSE qual_identifier
        ELSE IF SymbolToString(qual_identifier.identifier) = ConstName
             THEN simple_identifier_with_name(ConstArrIntIntName)
             ELSE qual_identifier,
        arguments)

visit_application(qual_identifier, arguments) ==
    LET new_identifier ==
            IF ~qual_identifier.sorted
            THEN IF SymbolToString(qual_identifier.identifier) = SelectName
                 THEN simple_identifier_with_name(ReadIntIntName)
                 ELSE IF SymbolToString(qual_identifier.identifier) = StoreName
                 THEN simple_identifier_with_name(WriteIntIntName)
                 ELSE qual_identifier
            ELSE IF SymbolToString(qual_identifier.identifier) = ConstName
                 THEN simple_identifier_with_name(ConstArrIntIntName)
                 ELSE qual_identifier
    IN  Application(new_identifier, arguments)

RECURSIVE AbstractTerm(_)
\* term.accept(&mut ArrayAbstractor): the arguments first, then the node
AbstractTerm(t) ==
    CASE t.kind = "id" -> t
      [] t.kind \in {"app", "app_as"} ->
            visit_application(QualOf(t),
                              [i \in DOMAIN t.args |-> AbstractTerm(t.args[i])])
      [] t.kind = "attr" -> Attributes(AbstractTerm(t.term), t.attributes)

\* command.accept(&mut ArrayAbstractor) for a declare-fun
AbstractCommand(c) == visit_declare_fun(c.symbol, c.sort)

\* self.clone()
abstract_array_theory(m) == m

\* --- inputs of the abstraction runs: models over arrays
M == <<"m">>
MN == <<"m", "'">>
I == <<"i">>
L == <<"l">>
IntName == <<"I", "n", "t">>
ListName == <<"L", "i", "s", "t">>
IntSort == SimpleSort(IntName)
ArrayIntInt == ParameterizedSort(ArrayName, <<IntSort, IntSort>>)
ArrayBoolInt == ParameterizedSort(ArrayName, <<BoolSort, IntSort>>)
ListInt == ParameterizedSort(ListName, <<IntSort>>)

Select(a, i) == App(SelectName, <<a, i>>)
Store(a, i, v) == App(StoreName, <<a, i, v>>)
\* ((as const sort) v)
ConstArray(so, v) == AppAs(ConstName, so, <<v>>)

ArrayPrefixes ==
    {<<DeclareFun(I, IntSort), DeclareFun(M, ArrayIntInt),
       DeclareFun(MN, ArrayIntInt), NextRel(M, MN)>>,
     <<DeclareFun(I, IntSort), DeclareFun(M, ArrayBoolInt),
       DeclareFun(MN, ArrayBoolInt), NextRel(M, MN)>>,
     <<DeclareFun(L, ListInt), DeclareFun(M, ArrayIntInt),
       DeclareFun(MN, ArrayIntInt), NextRel(M, MN), NextRel(L, L)>>,
     <<DeclareFun(A, ArrayIntInt), DeclareFun(M, ArrayIntInt),
       DeclareFun(MN, ArrayIntInt), NextRel(M, MN), ActionRel(A)>>,
     PfxVar}

ArrayInitTerms ==
    {Eq(Select(Id(M), Id(I)), Id(I)),
     Eq(Id(M), ConstArray(ArrayIntInt, Id(I))),
     Eq(Id(M), App(ConstName, <<Id(I)>>)),
     Eq(AppAs(SelectName, IntSort, <<Id(M), Id(I)>>), Id(I)),
     Id(X)}
ArrayTransTerms ==
    {Eq(Id(MN), Store(Id(M), Id(I), Select(Id(M), Id(I)))),
     Eq(Id(MN), Store(Store(Id(M), Id(I), Id(I)), Id(I), Id(I))),
     Eq(Id(MN), Id(M)),
     Eq(Id(XN), Id(X))}
ArrayPropTerms ==
    {Eq(Select(Id(M), Id(I)), Id(I)),
     Not(Eq(Select(Store(Id(M), Id(I), Id(I)), Id(I)), Id(I))),
     Id(X)}

ArrayInputs ==
    {lead \o <<InitCmd(i), TransCmd(t), PropCmd(p)>> :
        lead \in ArrayPrefixes, i \in ArrayInitTerms, t \in ArrayTransTerms,
        p \in ArrayPropTerms}

RECURSIVE SubTerms(_)
\* the nodes of a term
SubTerms(t) ==
    CASE t.kind = "id" -> {t}
      [] t.kind \in {"app", "app_as"} ->
            {t} \cup UNION {SubTerms(t.args[i]) : i \in DOMAIN t.args}
      [] t.kind = "attr" -> {t} \cup SubTerms(t.term)

\* the declarations a model holds
ModelDeclarations(m) ==
    {m.state_variables[i].current : i \in DOMAIN m.state_variables}
    \cup {m.state_variables[i].next : i \in DOMAIN m.state_variables}
    \cup {m.actions[i].action_command : i \in DOMAIN m.actions}

\* the nodes of the three conditions of a model
ModelTerms(m) ==
    SubTerms(m.initial_condition) \cup SubTerms(m.transition_condition)
    \cup SubTerms(m.property_condition)

InitArray ==
    /\ commands \in ArrayInputs
    /\ overflow_checks \in BOOLEAN
    /\ Idle

\* model.abstract_array_theory()
AbstractArrayTheory ==
    /\ pc = "model"
    /\ abstracted' = Ok(abstract_array_theory(model.ok))
    /\ pc' = "abstracted"
    /\ UNCHANGED <<commands, overflow_checks, model, length, iter, builder,
                   smt_problem, panic, script, visited>>

\* a declaration of the model through the ArrayAbstractor
VisitCommand ==
    /\ pc = "abstracted"
    /\ \E c \in ModelDeclarations(model.ok) :
          visited' = [kind |-> "command", node |-> c, result |-> AbstractCommand(c)]
    /\ pc' = "visited"
    /\ UNCHANGED <<commands, overflow_checks, model, length, iter, builder,
                   smt_problem, panic, script, abstracted>>

\* a node of the conditions of the model through the ArrayAbstractor
VisitTerm ==
    /\ pc = "abstracted"
    /\ \E t \in ModelTerms(model.ok) :
          visited' = [kind |-> "term", node |-> t, result |-> AbstractTerm(t)]
    /\ pc' = "visited"
    /\ UNCHANGED <<commands, overflow_checks, model, length, iter, builder,
                   smt_problem, panic, script, abstracted>>

NextArray == CheckedFrom \/ AbstractArrayTheory \/ VisitCommand \/ VisitTerm

\* the abstraction runs
SpecArray == InitArray /\ [][NextArray]_vars

(***************************************************************************)
(* Vocabulary of the properties.                                           *)
(***************************************************************************)
\* unroll returned its accumulator
Returned == pc \in {"unrolled", "done"}
\* unroll (or to_smtlib2) panicked on a model that extraction produced
UnrollPanicked == pc = "panicked" /\ ~IsPanic(model)

Assertions == smt_problem.init_and_trans_assertions
Definitions == smt_problem.definitions

\* the names of the model, read off the model itself
CurrentNames(m) ==
    {m.state_variables[i].current.symbol : i \in DOMAIN m.state_variables}
    \cup {m.actions[i].action_command.symbol : i \in DOMAIN m.actions}
NextNames(m) == {m.state_variables[i].next.symbol : i \in DOMAIN m.state_variables}
IsFrameName(m, s) == s \in CurrentNames(m) \cup NextNames(m)

IsPrefix(pre, text) ==
    Len(pre) <= Len(text) /\ SubSeq(text, 1, Len(pre)) = pre

\* the lines of a text: the pieces between its line feeds
Lines(text) ==
    LET nl == SelectSeq([i \in 1..Len(text) |-> i], LAMBDA i : text[i] = "\n")
        n == Len(nl)
    IN  [j \in 1..(n + 1) |->
            SubSeq(text,
                   IF j = 1 THEN 1 ELSE nl[j - 1] + 1,
                   IF j = n + 1 THEN Len(text) ELSE nl[j] - 1)]

\* the forms of a script: its lines that are not empty
Forms(text) == SelectSeq(Lines(text), LAMBDA l : l # <<>>)

\* the text that opens the declaration of sym
DeclarationOf(sym) ==
    <<"(", "d", "e", "c", "l", "a", "r", "e", "-", "f", "u", "n", " ">>
    \o SymbolToString(sym) \o <<" ">>

AssertText(body) == <<"(", "a", "s", "s", "e", "r", "t", " ">> \o body \o <<")">>
AssertNotText(body) ==
    <<"(", "a", "s", "s", "e", "r", "t", " ", "(", "n", "o", "t", " ">>
    \o body \o <<")", ")">>

\* the conditions the accumulated assertions were rewritten from, in order
AssertionSources(m) ==
    <<m.initial_condition>> \o [i \in 1..(Len(Assertions) - 1) |-> m.transition_condition]

\* the symbols of `out` that stand where `src` has a current- or next-frame name
IndexedSymbols(m, src, out) ==
    {Symbols(out)[j] : j \in {j \in DOMAIN Symbols(src) : IsFrameName(m, Symbols(src)[j])}}

\* sym is declared by a time-indexed declaration that precedes the form `text`
DeclaredBefore(forms, sym, text) ==
    \E d \in DOMAIN forms, a \in DOMAIN forms :
        /\ d < a
        /\ IsPrefix(DeclarationOf(sym), forms[d])
        /\ forms[a] = text

(***************************************************************************)
(* C1: for every model of extraction and every depth k that unroll takes   *)
(* (a u8), unroll returns an accumulator with exactly k+1 initial and      *)
(* transition assertions and one property assertion: its postcondition     *)
(* check never fails.                                                      *)
(***************************************************************************)
C1_PostconditionNeverFails ==
    /\ ~UnrollPanicked
    /\ Returned =>
          /\ Len(Assertions) = length + 1
          /\ smt_problem.property_assertion # None

(***************************************************************************)
(* C2: in the script of unroll(model, k) every time-indexed symbol of      *)
(* every assertion (initial, transition, negated property) is declared by  *)
(* a time-indexed declaration that stands earlier in the script.           *)
(***************************************************************************)
C2_IndexedSymbolsDeclared ==
    pc = "done" =>
        LET m == model.ok
            forms == Forms(script)
            srcs == AssertionSources(m)
            prop == smt_problem.property_assertion.some
        IN  /\ \A i \in DOMAIN Assertions :
                  \A sym \in IndexedSymbols(m, srcs[i], Assertions[i]) :
                      DeclaredBefore(forms, sym, AssertText(TermToString(Assertions[i])))
            /\ \A sym \in IndexedSymbols(m, m.property_condition, prop) :
                  DeclaredBefore(forms, sym, AssertNotText(TermToString(prop)))

(***************************************************************************)
(* Meaning of a Boolean model and of its query (what a solver decides).    *)
(***************************************************************************)
RECURSIVE BoolTermOver(_, _)
\* t is built from true, not, =, and over the names given
BoolTermOver(t, names) ==
    CASE t.kind = "id" -> t.sym \in names \cup {TrueSym}
      [] t.kind = "app" ->
            /\ \/ t.sym = NotSym /\ Len(t.args) = 1
               \/ t.sym \in {EqSym, AndSym} /\ Len(t.args) = 2
            /\ \A i \in DOMAIN t.args : BoolTermOver(t.args[i], names)
      [] OTHER -> FALSE

\* a model a solver can be asked about: distinct names, current and next apart,
\* initial condition and property over the current frame, transition over both
WellFormed(m) ==
    LET sv == m.state_variables
        ac == m.actions
        logic == {TrueSym, NotSym, EqSym, AndSym}
    IN  /\ \A i, j \in DOMAIN sv :
              i # j => /\ sv[i].current.symbol # sv[j].current.symbol
                       /\ sv[i].next.symbol # sv[j].next.symbol
        /\ \A i, j \in DOMAIN ac :
              i # j => ac[i].action_command.symbol # ac[j].action_command.symbol
        /\ \A i \in DOMAIN sv, j \in DOMAIN ac :
              sv[i].current.symbol # ac[j].action_command.symbol
        /\ CurrentNames(m) \cap NextNames(m) = {}
        /\ (CurrentNames(m) \cup NextNames(m)) \cap logic = {}
        /\ \A i \in DOMAIN sv : sv[i].current.sort = BoolSort
        /\ \A j \in DOMAIN ac : ac[j].action_command.sort = BoolSort
        /\ BoolTermOver(m.initial_condition, CurrentNames(m))
        /\ BoolTermOver(m.property_condition, CurrentNames(m))
        /\ BoolTermOver(m.transition_condition, CurrentNames(m) \cup NextNames(m))

RECURSIVE Eval(_, _)
\* the truth value of a Boolean term under an assignment of its names
Eval(t, env) ==
    CASE t.kind = "id" -> IF t.sym = TrueSym THEN TRUE ELSE env[t.sym]
      [] t.sym = NotSym -> ~Eval(t.args[1], env)
      [] t.sym = EqSym -> Eval(t.args[1], env) = Eval(t.args[2], env)
      [] t.sym = AndSym -> Eval(t.args[1], env) /\ Eval(t.args[2], env)

\* the query is satisfiable: some assignment of the declared names makes every
\* assertion true and the property false
Satisfiable ==
    \E env \in [{Definitions[i].symbol : i \in DOMAIN Definitions} -> BOOLEAN] :
        /\ \A i \in DOMAIN Assertions : Eval(Assertions[i], env)
        /\ ~Eval(smt_problem.property_assertion.some, env)

\* a state of the model: a value for every current-frame name
Configs(m) == [CurrentNames(m) -> BOOLEAN]

\* the transition condition holds from c to d
Steps(m, c, d) ==
    Eval(m.transition_condition,
         [s \in CurrentNames(m) \cup NextNames(m) |->
            IF s \in CurrentNames(m) THEN c[s]
            ELSE d[m.state_variables[CHOOSE i \in DOMAIN m.state_variables :
                      m.state_variables[i].next.symbol = s].current.symbol]])

RECURSIVE ReachedIn(_, _)
\* the states at the end of the executions of exactly i transition steps
ReachedIn(m, i) ==
    IF i = 0 THEN {c \in Configs(m) : Eval(m.initial_condition, c)}
    ELSE LET before == ReachedIn(m, i - 1)
         IN  {d \in Configs(m) : \E c \in before : Steps(m, c, d)}

Violates(m, c) == ~Eval(m.property_condition, c)

\* a returned unrolling of a well-formed Boolean model, small enough to decide
Decidable == Returned /\ length <= MaxDepth /\ WellFormed(model.ok)

(***************************************************************************)
(* C3 (as claimed): the query of unroll(model, k) is unsatisfiable only if *)
(* the property holds at every step 0..k of every execution, and           *)
(* satisfiable only if some execution of k steps ends in a violation.      *)
(***************************************************************************)
C3_UnsatCertifiesEveryStep ==
    Decidable =>
        /\ ~Satisfiable =>
              \A i \in 0..length : \A c \in ReachedIn(model.ok, i) : ~Violates(model.ok, c)
        /\ Satisfiable =>
              \E c \in ReachedIn(model.ok, length) : Violates(model.ok, c)

(***************************************************************************)
(* C3 (amended): for a well-formed Boolean model the query of              *)
(* unroll(model, k) is satisfiable exactly when some execution of exactly  *)
(* k transition steps from an initial state ends in a state that violates  *)
(* the property; unsatisfiability says nothing about the steps before k.   *)
(***************************************************************************)
C3_SatIffViolationAtStepK ==
    Decidable =>
        (Satisfiable <=> \E c \in ReachedIn(model.ok, length) : Violates(model.ok, c))

\* a satisfiable and an unsatisfiable-despite-an-earlier-violation query exist
C3_Witness ==
    /\ Decidable
    /\ length >= 1
    /\ Len(model.ok.actions) > 0
    /\ ~Satisfiable
    /\ \E i \in 0..(length - 1) : \E c \in ReachedIn(model.ok, i) : Violates(model.ok, c)

\* condition t as the renamer rewrites it at the given step
RewrittenAt(m, t, step) == MapSymbols(t, [NewBuilder(m) EXCEPT !.step = step], FALSE)

\* the initial condition at step 0, then the transition condition at steps 0..k-1
ExpectedAssertions(m, k) ==
    [i \in 1..(k + 1) |->
        IF i = 1 THEN RewrittenAt(m, m.initial_condition, 0)
        ELSE RewrittenAt(m, m.transition_condition, i - 2)]

(***************************************************************************)
(* C4: the script holds the property exactly once, as the form             *)
(* (assert (not P)) with P the property rewritten at step k; the property  *)
(* assertion is never emitted un-negated and is never put in the list of   *)
(* initial/transition assertions.                                          *)
(***************************************************************************)
C4_PropertyOnlyNegated ==
    pc = "done" =>
        LET m == model.ok
            forms == Forms(script)
            P == RewrittenAt(m, m.property_condition, length)
        IN  /\ smt_problem.property_assertion = Some(P)
            /\ forms[Len(forms)] = AssertNotText(TermToString(P))
            \* the property adds one form, the last, to those of the other parts
            /\ Len(forms) = Len(m.sorts) + Len(Definitions) + Len(Assertions) + 1
            /\ \A i \in 1..(Len(forms) - 1) :
                  \/ i <= Len(m.sorts) + Len(Definitions)
                  \/ forms[i] = AssertText(TermToString(
                                   Assertions[i - Len(m.sorts) - Len(Definitions)]))
            \* the list holds the initial and transition conditions and nothing more
            /\ Assertions = ExpectedAssertions(m, length)

\* a script whose property names a state variable and differs from the initial condition
C4_Witness ==
    /\ pc = "done"
    /\ length >= 1
    /\ model.ok.property_condition # model.ok.initial_condition
    /\ IndexedSymbols(model.ok, model.ok.property_condition,
                      smt_problem.property_assertion.some) # {}

\* what the next step of unroll hands to process_symbol at the builder's step
SymbolsToRename(m) ==
    {m.state_variables[i].current.symbol : i \in DOMAIN m.state_variables}
    \cup {m.state_variables[i].current.sort.identifier : i \in DOMAIN m.state_variables}
    \cup {m.actions[i].action_command.symbol : i \in DOMAIN m.actions}
    \cup {m.actions[i].action_command.sort.identifier : i \in DOMAIN m.actions}
    \cup Range(Symbols(IF iter < length THEN m.transition_condition
                       ELSE m.property_condition))

(***************************************************************************)
(* C5: at every step s the renamer maps a current-frame name to name@s,    *)
(* otherwise a next-frame name to c@(s+1) for the current name c paired    *)
(* with it, and leaves every other symbol unchanged; the current-frame     *)
(* test comes first.                                                       *)
(***************************************************************************)
C5_RenamerRule ==
    pc = "loop" =>
        LET m == model.ok
            sv == m.state_variables
        IN  \A s \in SymbolsToRename(m) :
                LET r == process_symbol(builder, s, overflow_checks)
                IN  IF s \in CurrentNames(m)
                    THEN r = Ok(s \o <<"@">> \o to_string(builder.step))
                    ELSE IF s \in NextNames(m)
                    THEN \E i \in DOMAIN sv :
                            /\ sv[i].next.symbol = s
                            /\ r = Ok(sv[i].current.symbol \o <<"@">>
                                      \o to_string(builder.step + 1))
                    ELSE r = Ok(s)

(***************************************************************************)
(* C6: for every state variable (c, n) and every step s of an unrolling,   *)
(* each occurrence of n in the transition assertion of step s is rewritten *)
(* to the symbol that the declaration of c at step s+1 declares.           *)
(***************************************************************************)
C6_AdjacentStepsConsistent ==
    Returned =>
        LET m == model.ok
            sv == m.state_variables
            n == Len(sv) + Len(m.actions)
            src == Symbols(m.transition_condition)
        IN  \A v \in DOMAIN sv : \A s \in 0..(length - 1) : \A j \in DOMAIN src :
                src[j] = sv[v].next.symbol =>
                    Symbols(Assertions[s + 2])[j] = Definitions[(s + 1) * n + v].symbol

(***************************************************************************)
(* C7: unroll(model, k) accumulates the declarations of the steps 0..k in  *)
(* increasing order, at each step name@i for every state variable's        *)
(* current declaration in model order and then for every action:           *)
(* (k+1) * (variables + actions) declarations, none indexed above k.  For  *)
(* k = 0 there are the step-0 declarations, the initial assertion alone    *)
(* and the property at step 0.                                             *)
(***************************************************************************)
C7_DeclarationsPerStep ==
    smt_problem.property_assertion # None =>
        LET m == model.ok
            sv == m.state_variables
            names == [i \in DOMAIN sv |-> sv[i].current.symbol]
                     \o [i \in DOMAIN m.actions |-> m.actions[i].action_command.symbol]
            n == Len(sv) + Len(m.actions)
        IN  /\ Len(Definitions) = (length + 1) * n
            /\ \A i \in 0..length : \A j \in 1..n :
                  /\ Definitions[i * n + j].cmd = "declare-fun"
                  /\ Definitions[i * n + j].symbol = names[j] \o <<"@">> \o to_string(i)
            /\ length = 0 =>
                  /\ Assertions = <<RewrittenAt(m, m.initial_condition, 0)>>
                  /\ smt_problem.property_assertion =
                        Some(RewrittenAt(m, m.property_condition, 0))

\* an unrolling of several steps of a model with a variable and an action
C7_Witness ==
    /\ Returned
    /\ length >= 2
    /\ Len(model.ok.state_variables) >= 1
    /\ Len(model.ok.actions) >= 1
    /\ Len(Definitions) >= 6

(***************************************************************************)
(* C8: the text of the query is, in this order and with nothing else: the  *)
(* sort declarations in model order, the time-indexed declarations in      *)
(* accumulation order, one (assert ...) per initial/transition assertion   *)
(* (the initial one first, the transitions by increasing step), and the    *)
(* single (assert (not ...)) of the property as the last form.             *)
(***************************************************************************)
C8_ScriptOrder ==
    pc = "done" =>
        LET m == model.ok
            expected == ExpectedAssertions(m, length)
        IN  Forms(script) =
                [i \in DOMAIN m.sorts |-> CommandToString(m.sorts[i])]
                \o [i \in DOMAIN Definitions |-> CommandToString(Definitions[i])]
                \o [i \in DOMAIN expected |-> AssertText(TermToString(expected[i]))]
                \o <<AssertNotText(TermToString(smt_problem.property_assertion.some))>>

\* a script with a sort, declarations of several steps and several assertions
C8_Witness ==
    /\ pc = "done"
    /\ length >= 2
    /\ Len(model.ok.sorts) >= 1
    /\ Len(Definitions) >= 6
    /\ Len(Forms(script)) = 1 + Len(Definitions) + length + 2

(***************************************************************************)
(* Extraction: which inputs are accepted, and what the model holds.        *)
(***************************************************************************)
\* extraction has run on the commands
Extracted == pc # "start"

\* the names the declarations before the last three declare
DeclaredNames(cmds) ==
    {Leading(cmds)[i].symbol :
        i \in {j \in DOMAIN Leading(cmds) : Leading(cmds)[j].cmd = "declare-fun"}}

\* a definition whose body is a wrapper with the one attribute key
IsWrapper(c, key) ==
    /\ c.cmd = "define-fun"
    /\ c.term.kind = "attr"
    /\ Len(c.term.attributes) = 1
    /\ c.term.attributes[1][1] = key

\* the relationships of the input with the attribute key
RelationshipsWith(cmds, key) ==
    {i \in DOMAIN Leading(cmds) : IsWrapper(Leading(cmds)[i], key)}

\* a relationship that names declared variables only
ValidRelationship(c, declared) ==
    /\ \/ IsWrapper(c, "next") /\ c.term.attributes[1][2] \in declared
       \/ IsWrapper(c, "action")
    /\ c.term.term.kind = "id"
    /\ c.term.term.sym \in declared

\* more than three declarations, the last three the init, trans and
\* invar-property wrappers, the earlier ones declarations, sort declarations
\* and valid relationships
ValidDeclarations(cmds) ==
    /\ Len(cmds) > 3
    /\ IsWrapper(cmds[Len(cmds) - 2], INITIAL_ATTRIBUTE)
    /\ IsWrapper(cmds[Len(cmds) - 1], TRANSITION_ATTRIBUTE)
    /\ IsWrapper(cmds[Len(cmds)], PROPERTY_ATTRIBUTE)
    /\ \A i \in DOMAIN Leading(cmds) :
          LET c == Leading(cmds)[i]
          IN  \/ c.cmd \in {"declare-fun", "declare-sort"}
              \/ c.cmd = "define-fun" /\ ValidRelationship(c, DeclaredNames(cmds))

\* C9: on a declaration sequence of length greater than 3 whose last three
\* declarations are the init, trans and invar-property wrappers in that order
\* and whose earlier declarations are valid, extraction succeeds, and the
\* model has as many state variables as the input has :next relationships
\* and as many actions as it has :action relationships.
C9_ValidExtractionSucceeds ==
    (Extracted /\ ValidDeclarations(commands)) =>
        /\ ~IsPanic(model)
        /\ Len(model.ok.state_variables) =
              Cardinality(RelationshipsWith(commands, "next"))
        /\ Len(model.ok.actions) =
              Cardinality(RelationshipsWith(commands, "action"))

\* a valid input with a relationship whose next name is written quoted
C9_Witness ==
    /\ Extracted
    /\ ValidDeclarations(commands)
    /\ Cardinality(RelationshipsWith(commands, "next")) = 1
    /\ ~IsPanic(model)
    /\ Len(model.ok.state_variables) = 1
    /\ model.ok.state_variables[1].next.symbol = XN

\* the declared variables that no :next or :action relationship names
Unrelated(cmds) ==
    {n \in DeclaredNames(cmds) :
        \A i \in RelationshipsWith(cmds, "next") \cup RelationshipsWith(cmds, "action") :
            LET t == Leading(cmds)[i].term
            IN  /\ scrub_variable_name(TermToString(t.term)) # n
                /\ IsWrapper(Leading(cmds)[i], "next") => t.attributes[1][2] # n}

\* C10: when some variable declared before the last three declarations is
\* named by no :next or :action relationship, extraction fails with the
\* unknown-variable error; it never builds a model without the variable.
C10_UnrelatedVariableFails ==
    (Extracted /\ Len(commands) > 3 /\ Unrelated(commands) # {}) =>
        /\ IsPanic(model)
        /\ model.panic = "First term in define-fun must be a variable name"

\* the three trailing positions hold the wrappers the extraction expects
GoodTrailers(cmds) ==
    /\ IsWrapper(cmds[Len(cmds) - 2], INITIAL_ATTRIBUTE)
    /\ IsWrapper(cmds[Len(cmds) - 1], TRANSITION_ATTRIBUTE)
    /\ IsWrapper(cmds[Len(cmds)], PROPERTY_ATTRIBUTE)

\* C11: the conditions come from the last three declarations by position
\* (initial third-to-last, transition second-to-last, property last), each a
\* definition whose body is a single-attribute wrapper keyed init, trans and
\* invar-property; when a position holds another keyword, a body that is no
\* single-attribute wrapper or a node that is no definition, extraction fails
\* and produces no model; on success each condition is the wrapped term
\* without its attribute.
C11_TrailersPositional ==
    (Extracted /\ Len(commands) >= 3) =>
        /\ ~GoodTrailers(commands) => IsPanic(model)
        /\ ~IsPanic(model) =>
              /\ model.ok.initial_condition = commands[Len(commands) - 2].term.term
              /\ model.ok.transition_condition = commands[Len(commands) - 1].term.term
              /\ model.ok.property_condition = commands[Len(commands)].term.term

\* init and trans swapped over an otherwise valid input: extraction failed
C11_Witness ==
    /\ Extracted
    /\ Len(commands) > 3
    /\ IsWrapper(commands[Len(commands) - 2], TRANSITION_ATTRIBUTE)
    /\ IsWrapper(commands[Len(commands) - 1], INITIAL_ATTRIBUTE)
    /\ IsWrapper(commands[Len(commands)], PROPERTY_ATTRIBUTE)
    /\ \A i \in DOMAIN Leading(commands) :
          Leading(commands)[i].cmd \in {"declare-fun", "declare-sort"}
    /\ IsPanic(model)

\* a relationship that is no single-attribute :next/:action wrapper over
\* declared names
BadRelationship(c, declared) ==
    \/ c.term.kind # "attr"
    \/ /\ c.term.kind = "attr"
       /\ \/ Len(c.term.attributes) # 1
          \/ /\ Len(c.term.attributes) = 1
             /\ \/ c.term.attributes[1][1] \notin {"next", "action"}
                \/ c.term.term.kind = "id" /\ c.term.term.sym \notin declared
                \/ /\ c.term.attributes[1][1] = "next"
                   /\ c.term.attributes[1][2] \notin declared

\* fewer than four declarations, or a structural error before the last three
StructuralError(cmds) ==
    \/ Len(cmds) < 4
    \/ \E i \in DOMAIN Leading(cmds) :
          LET c == Leading(cmds)[i]
          IN  \/ c.cmd \notin {"declare-fun", "define-fun", "declare-sort"}
              \/ c.cmd = "define-fun" /\ BadRelationship(c, DeclaredNames(cmds))

\* C12: with fewer than four declarations, or with a node before the last
\* three that is no declaration, definition or sort declaration, a
\* relationship whose body is no single-attribute wrapper, an attribute key
\* other than :next and :action, or a relationship naming an undeclared
\* symbol, extraction ends in a failure and yields no model.
C12_StructuralErrorFails ==
    (Extracted /\ StructuralError(commands)) =>
        /\ IsPanic(model)
        /\ pc = "panicked"
        /\ smt_problem = DefaultProblem

\* good trailers, and the one error a :next relationship over an undeclared name
C12_Witness ==
    /\ Extracted
    /\ Len(commands) > 3
    /\ GoodTrailers(commands)
    /\ \A i \in DOMAIN Leading(commands) :
          \/ Leading(commands)[i].cmd = "declare-fun"
          \/ IsWrapper(Leading(commands)[i], "next")
    /\ StructuralError(commands)
    /\ IsPanic(model)
    /\ model.panic = "First term in define-fun must be a variable name"

\* C13: in every model extraction produces, the current and next members of
\* each state variable are declaration nodes and name two distinct symbols.
C13_VariableMembersDistinct ==
    (Extracted /\ ~IsPanic(model)) =>
        \A i \in DOMAIN model.ok.state_variables :
            LET v == model.ok.state_variables[i]
            IN  /\ v.current.cmd = "declare-fun"
                /\ v.next.cmd = "declare-fun"
                /\ v.current.symbol # v.next.symbol

(***************************************************************************)
(* Array abstraction: what the abstracted model and each node hold.        *)
(***************************************************************************)
IsArraySort(so) == so.parameters # <<>> /\ so.identifier = ArrayName

IsArrayOperation(t) == t.kind = "app" /\ t.sym \in {SelectName, StoreName}

\* the model declares an array or applies select or store
UsesArrays(m) ==
    \/ \E c \in ModelDeclarations(m) : IsArraySort(c.sort)
    \/ \E t \in ModelTerms(m) : IsArrayOperation(t)

\* no parameterized Array sort and no select or store application is left
ArrayFree(m) ==
    /\ \A c \in ModelDeclarations(m) : ~IsArraySort(c.sort)
    /\ \A t \in ModelTerms(m) :
          /\ ~IsArrayOperation(t)
          /\ t.kind = "app_as" => ~IsArraySort(t.sort)

Abstracted == pc \in {"abstracted", "visited"}

\* C14: for a model that uses the sort (Array Int Int) and select/store
\* applications, the model array abstraction returns holds no parameterized
\* Array sort and no select or store application, and the original model is
\* unchanged.
C14_AbstractionRemovesArrays ==
    (Abstracted /\ UsesArrays(model.ok)) =>
        /\ ArrayFree(abstracted.ok)
        /\ model = checked_from(commands)

\* a term without select, store and the sorted const
NoArrayConstruct(t) ==
    \A u \in SubTerms(t) :
        /\ ~IsArrayOperation(u)
        /\ ~(u.kind = "app_as" /\ u.sym = ConstName)

\* C15: the abstractor leaves a declaration with a simple sort unchanged,
\* gives a declaration whose sort is the parameterized Array the simple sort
\* Array-Int-Int and leaves any other parameterized sort unchanged; an
\* application of select becomes Read-Int-Int, of store Write-Int-Int and of
\* the sorted identifier const ConstArr-Int-Int, each over the same argument
\* list; every other application keeps its function symbol; a term with no
\* array construct comes back unchanged.
C15_AbstractorNodeRules ==
    LET n == visited.node
        r == visited.result
    IN  /\ (pc = "visited" /\ visited.kind = "command") =>
              /\ r.cmd = "declare-fun" /\ r.symbol = n.symbol
              /\ n.sort.parameters = <<>> => r = n
              /\ IsArraySort(n.sort) => r.sort = SimpleSort(ArrayIntIntName)
              /\ (n.sort.parameters # <<>> /\ ~IsArraySort(n.sort)) => r = n
        /\ (pc = "visited" /\ visited.kind = "term") =>
              /\ NoArrayConstruct(n) => r = n
              /\ n.kind = "id" => r = n
              /\ n.kind \in {"app", "app_as"} =>
                    /\ r.args = [i \in DOMAIN n.args |-> AbstractTerm(n.args[i])]
                    /\ \A i \in DOMAIN n.args :
                          NoArrayConstruct(n.args[i]) => r.args[i] = n.args[i]
                    /\ (n.kind = "app" /\ n.sym = SelectName) =>
                          r.kind = "app" /\ r.sym = ReadIntIntName
                    /\ (n.kind = "app" /\ n.sym = StoreName) =>
                          r.kind = "app" /\ r.sym = WriteIntIntName
                    /\ (n.kind = "app_as" /\ n.sym = ConstName) =>
                          r.kind = "app" /\ r.sym = ConstArrIntIntName
                    /\ (~IsArrayOperation(n)
                        /\ ~(n.kind = "app_as" /\ n.sym = ConstName)) =>
                          /\ r.kind = n.kind /\ r.sym = n.sym
                          /\ n.kind = "app_as" => r.sort = n.sort

\* a store over a store went through the abstractor
C15_Witness ==
    /\ pc = "visited"
    /\ visited.kind = "term"
    /\ visited.node.kind = "app"
    /\ visited.node.sym = StoreName
    /\ visited.node.args[1].kind = "app"
    /\ visited.node.args[1].sym = StoreName
    /\ visited.result.sym = WriteIntIntName
    /\ visited.result.args[1].sym = WriteIntIntName

(***************************************************************************)
(* The step counter during an unrolling.                                   *)
(***************************************************************************)
\* the declarations unroll renames: the current ones, then the actions
DeclarationsToRename(m) ==
    [i \in DOMAIN m.state_variables |-> m.state_variables[i].current]
    \o [i \in DOMAIN m.actions |-> m.actions[i].action_command]

\* the batches of the steps 0..last-1 are the declarations renamed at their step
BatchesUpTo(m, last) ==
    LET decls == DeclarationsToRename(m)
        n == Len(decls)
    IN  /\ Len(Definitions) = last * n
        /\ \A i \in 0..(last - 1) : \A j \in 1..n :
              Definitions[i * n + j] =
                  RewriteCommand(decls[j], [NewBuilder(m) EXCEPT !.step = i],
                                 overflow_checks).ok

C16_StepOfEachPart ==
    /\ pc = "loop" =>
          /\ builder.step = iter
          /\ iter <= length
          /\ Assertions = ExpectedAssertions(model.ok, iter)
          /\ BatchesUpTo(model.ok, iter)
    /\ Returned =>
          /\ builder.step = length
          /\ Assertions = ExpectedAssertions(model.ok, length)
          /\ BatchesUpTo(model.ok, length + 1)
          /\ smt_problem.property_assertion =
                Some(RewrittenAt(model.ok, model.ok.property_condition, builder.step))

C16_OnlyAdvanceMoves ==
    builder'.step # builder.step =>
        /\ pc = "loop" /\ pc' = "loop"
        /\ builder'.step = builder.step + 1
        /\ iter' = iter + 1
        /\ Len(Assertions') = Len(Assertions) + 1
        /\ Assertions'[Len(Assertions')] =
              RewrittenAt(model.ok, model.ok.transition_condition, builder.step)
        /\ Len(Definitions') =
              Len(Definitions) + Len(DeclarationsToRename(model.ok))

\* C16: during unroll(model, k) the step counter starts at 0 and only the
\* advance of a loop iteration changes it, by one, after the declarations
\* and the transition assertion of that iteration were produced; the initial
\* assertion is rewritten at step 0, the i-th transition assertion and the
\* i-th batch of declarations at step i, the last declarations and the
\* property at step k, the final value of the counter.
C16_StepCounter == [](C16_StepOfEachPart) /\ [][C16_OnlyAdvanceMoves]_vars

\* an unrolling of two steps of a model with a variable returned
C16_Witness ==
    /\ Returned
    /\ length = 2
    /\ builder.step = 2
    /\ Len(model.ok.state_variables) >= 1
    /\ Len(Assertions) = 3

\* C17: the depth and the step counter are u8: for every depth k in 0..254
\* the counter and the sums step+1 and k+1 stay within 0..255 and unroll
\* returns; for k = 255 the k+1 of the postcondition leaves the range (it
\* wraps to 0 or aborts) and unroll never returns, although 256 assertions
\* were accumulated.
C17_EightBitDepth ==
    /\ builder.step \in 0..U8Max
    /\ length \in 0..U8Max
    /\ (pc \in {"loop", "unrolled", "done"} /\ length < U8Max) =>
          /\ builder.step + 1 <= U8Max
          /\ U8Add(builder.step, 1, overflow_checks) = Ok(builder.step + 1)
          /\ U8Add(length, 1, overflow_checks) = Ok(length + 1)
    /\ length < U8Max => ~UnrollPanicked
    /\ length = U8Max =>
          /\ ~Returned
          /\ U8Add(length, 1, overflow_checks) \in
                {Ok(0), Panic("attempt to add with overflow")}
          /\ UnrollPanicked => Len(Assertions) = U8Max + 1

\* unroll(model, 255) died with its 256 assertions
C17_Witness ==
    /\ UnrollPanicked
    /\ length = U8Max
    /\ Len(Assertions) = U8Max + 1
    /\ builder.step = U8Max

\* where the symbol at a place of a condition rewritten at a step comes from:
\* the current-frame name and the index, or nothing for a symbol left alone
Origin(m, sym, step) ==
    IF sym \in CurrentNames(m) THEN <<sym, step>>
    ELSE IF sym \in NextNames(m)
    THEN <<get_all_next_variable_names(m)[sym], step + 1>>
    ELSE <<>>

\* the symbols of the assertions of the query, each with its origin
QuerySymbols(m) ==
    UNION {{<<Symbols(Assertions[a])[j],
              Origin(m, Symbols(AssertionSources(m)[a])[j],
                     IF a = 1 THEN 0 ELSE a - 2)>> :
                j \in DOMAIN Symbols(Assertions[a])} : a \in DOMAIN Assertions}
    \cup {<<Symbols(smt_problem.property_assertion.some)[j],
            Origin(m, Symbols(m.property_condition)[j], length)>> :
              j \in DOMAIN Symbols(m.property_condition)}

\* C18: in the query of unroll(model, k) a symbol name@i that comes from
\* renaming a current- or next-frame name never equals a symbol the renamer
\* left unchanged, and two indexed symbols are equal only when they come
\* from the same current-frame name and the same index.
C18_IndexedNamesFresh ==
    Returned =>
        \A p, q \in QuerySymbols(model.ok) :
            (p[1] = q[1] /\ p[2] # <<>>) => p[2] = q[2]

====
